---- MODULE Spec2Model ----
(***************************************************************************)
(* Background Removal API: the POST /remove-background handler (main.py),  *)
(* the image pipeline (services/image_processor.py) and the S3 uploader    *)
(* (services/storage_service.py).                                          *)
(***************************************************************************)
EXTENDS Integers, Sequences, FiniteSets, TLC

(* ---------------- bounds ---------------- *)
MaxDim == 2
MaxRetries == 3
MaxIds == 3

(* ---------------- program constants ---------------- *)
DefaultRetries == 3
AWS_BUCKET_NAME == "background-removal-bucket"
REGION_NAME == "us-east-1"
SupportedFormats == {"JPEG", "PNG", "BMP"}

(* ---------------- input domains ---------------- *)
Urls == {"http://a/img", "http://b/img"}
Keys == {"x_min", "y_min", "x_max", "y_max"}
Coord == (0 - 1) .. (MaxDim + 1)
Dims == 1 .. MaxDim
Modes == {"RGB", "RGBA", "L"}
Formats == {"JPEG", "PNG", "BMP", "GIF"}
Ids == 1 .. MaxIds
\* a bounding_box is a dict: any subset of the four keys may be present
BBoxes == UNION {[S -> Coord] : S \in SUBSET Keys}
\* what the network answers to requests.get
NetOutcomes == {"ok", "Timeout", "HTTPError"}
\* the bytes of a 2xx response: an image file of some format, or garbage
NotAnImage == [decodable |-> FALSE, format |-> "NONE", W |-> 0, H |-> 0, mode |-> "NONE"]
Payloads ==
  {NotAnImage} \cup
  [decodable : {TRUE}, format : Formats, W : Dims, H : Dims, mode : Modes]

\* the payload is a well-formed image file of a format the service supports
IsSupportedImage(payload) == payload.decodable /\ payload.format \in SupportedFormats

(* ---------------- values ---------------- *)
None == [kind |-> "None"]
NoExc == [cls |-> "None", msg |-> <<>>]
Exc(c, m) == [cls |-> c, msg |-> m]
PILImage(w, h, m) == [kind |-> "Image", W |-> w, H |-> h, mode |-> m]

(* ---------------- ImageProcessor.download_image ---------------- *)
\* the result of one call: a returned image or a raised exception
download_image(net, payload) ==
  IF net = "Timeout"
    THEN [ok |-> FALSE, verified |-> FALSE, value |-> None,
          exc |-> Exc("ValueError", <<"The request timed out while trying to download the image">>)]
  ELSE IF net # "ok"
    THEN [ok |-> FALSE, verified |-> FALSE, value |-> None,
          exc |-> Exc("ValueError", <<"An error occurred while downloading the image", net>>)]
  ELSE IF ~payload.decodable
    THEN [ok |-> FALSE, verified |-> TRUE, value |-> None,
          exc |-> Exc("ValueError", <<"Failed to open the image. The file might be corrupted or unsupported.">>)]
  ELSE IF payload.format \notin SupportedFormats
    THEN [ok |-> FALSE, verified |-> TRUE, value |-> None,
          exc |-> Exc("ValueError", <<"Unsupported image format", payload.format>>)]
  ELSE [ok |-> TRUE, verified |-> TRUE,
        value |-> PILImage(payload.W, payload.H, payload.mode), exc |-> NoExc]

(* ---------------- ImageProcessor.validate_bounding_box ---------------- *)
\* dict.get(key, default)
get(d, k, default) == IF k \in DOMAIN d THEN d[k] ELSE default

\* variant: x_max is compared with the height and y_max with the width
validate_bounding_box_swapped(image, bounding_box) ==
  LET width == image.W
      height == image.H
      x_min == get(bounding_box, "x_min", 0)
      y_min == get(bounding_box, "y_min", 0)
      x_max == get(bounding_box, "x_max", 0)
      y_max == get(bounding_box, "y_max", 0)
  IN IF ~(0 <= x_min /\ x_min < x_max /\ x_max <= height /\
          0 <= y_min /\ y_min < y_max /\ y_max <= width)
       THEN Exc("ValueError", <<"Bounding box is invalid">>)
       ELSE NoExc

validate_bounding_box(image, bounding_box) ==
  LET width == image.W
      height == image.H
      x_min == get(bounding_box, "x_min", 0)
      y_min == get(bounding_box, "y_min", 0)
      x_max == get(bounding_box, "x_max", 0)
      y_max == get(bounding_box, "y_max", 0)
  IN IF ~(0 <= x_min /\ x_min < x_max /\ x_max <= width /\
          0 <= y_min /\ y_min < y_max /\ y_max <= height)
       THEN Exc("ValueError", <<"Bounding box is invalid">>)
       ELSE NoExc

(* ---------------- ImageProcessor.crop_image ---------------- *)
\* bounding_box[key] raises KeyError on a missing key; the keys are read in this order
KeyOrder == <<"x_min", "y_min", "x_max", "y_max">>
FirstMissing(d) ==
  LET i == CHOOSE j \in 1..4 : KeyOrder[j] \notin DOMAIN d /\
                               \A l \in 1..(j - 1) : KeyOrder[l] \in DOMAIN d
  IN KeyOrder[i]

crop_image(image, bounding_box) ==
  IF Keys \subseteq DOMAIN bounding_box
    THEN [ok |-> TRUE, exc |-> NoExc,
          value |-> PILImage(bounding_box["x_max"] - bounding_box["x_min"],
                             bounding_box["y_max"] - bounding_box["y_min"],
                             image.mode)]
    ELSE [ok |-> FALSE, value |-> None,
          exc |-> Exc("KeyError", <<FirstMissing(bounding_box)>>)]

(* ---------------- ImageProcessor.remove_background ---------------- *)
\* Image.convert(mode)
convert(image, mode) == [image EXCEPT !.mode = mode]
\* np.array(image): height x width x channels
Channels(mode) == IF mode = "RGBA" THEN 4 ELSE IF mode = "RGB" THEN 3 ELSE 1
np_array(image) == [ndim |-> 3, W |-> image.W, H |-> image.H, ch |-> Channels(image.mode)]
\* Image.fromarray(array, mode)
fromarray(array, mode) == PILImage(array.W, array.H, mode)
\* what rembg.remove may do with the input array: raise, or return an array
\* of some shape (the model is a black box)
RembgBehaviours == {"raise", "mask2d", "rgb", "rgba"}
remove(input_array, behaviour) ==
  IF behaviour = "raise" THEN [raised |-> TRUE, array |-> None]
  ELSE IF behaviour = "mask2d"
    THEN [raised |-> FALSE, array |-> [input_array EXCEPT !.ndim = 2, !.ch = 0]]
  ELSE IF behaviour = "rgb"
    THEN [raised |-> FALSE, array |-> [input_array EXCEPT !.ch = 3]]
  ELSE [raised |-> FALSE, array |-> [input_array EXCEPT !.ch = 4]]

\* variant: the shape test of line 97 is missing
remove_background_unchecked(image, behaviour) ==
  LET rgb == IF image.mode \notin {"RGB", "RGBA"} THEN convert(image, "RGB") ELSE image
      rgba == convert(rgb, "RGBA")
      input_array == np_array(rgba)
      out == remove(input_array, behaviour)
  IN IF out.raised
       THEN [ok |-> FALSE, value |-> None,
             exc |-> Exc("ValueError", <<"Background removal failed", "rembg error">>)]
       ELSE [ok |-> TRUE, value |-> fromarray(out.array, "RGBA"), exc |-> NoExc]

remove_background(image, behaviour) ==
  LET rgb == IF image.mode \notin {"RGB", "RGBA"} THEN convert(image, "RGB") ELSE image
      rgba == convert(rgb, "RGBA")
      input_array == np_array(rgba)
      out == remove(input_array, behaviour)
  IN IF out.raised
       THEN [ok |-> FALSE, value |-> None,
             exc |-> Exc("ValueError", <<"Background removal failed", "rembg error">>)]
     ELSE IF out.array.ndim = 3 /\ out.array.ch = 4
       THEN [ok |-> TRUE, value |-> fromarray(out.array, "RGBA"), exc |-> NoExc]
     ELSE [ok |-> FALSE, value |-> None,
           exc |-> Exc("ValueError", <<"Background removal failed",
                                       "Unexpected array shape during background removal">>)]

(* ---------------- main.py: in-memory PNG encoding ---------------- *)
\* processed_image.save(image_buffer, format="PNG"); image_buffer.seek(0)
save_png(image) == [kind |-> "BytesIO", format |-> "PNG", W |-> image.W, H |-> image.H,
                    mode |-> image.mode, pos |-> 0]

(* ---------------- StorageService ---------------- *)
\* f"{uuid.uuid4()}_processed.png"
\* variant: a fixed name instead of a uuid
filename_fixed(id) == <<0, "_processed.png">>
filename(id) == <<id, "_processed.png">>
public_url(key) ==
  <<"https://", AWS_BUCKET_NAME, ".s3.", REGION_NAME, ".amazonaws.com/", key>>
\* what put_object may do
S3Outcomes == {"ok", "ClientError", "BotoCoreError", "Exception"}
\* the value upload_image returns or the exception it raises, after put_object
upload_result(key, s3) ==
  IF s3 = "ok" THEN [ok |-> TRUE, value |-> public_url(key), exc |-> NoExc]
  ELSE IF s3 \in {"ClientError", "BotoCoreError"}
    THEN [ok |-> FALSE, value |-> None, exc |-> Exc("ValueError", <<"S3 upload failed", s3>>)]
  ELSE [ok |-> FALSE, value |-> None,
        exc |-> Exc("ValueError", <<"Unexpected error during S3 upload", s3>>)]
\* the bucket after put_object(Bucket, Key, Body, ContentType)
put_object(objects, key, body, s3) ==
  IF s3 = "ok"
    THEN [k \in DOMAIN objects \cup {key} |->
            IF k = key THEN [Body |-> body, ContentType |-> "image/png"] ELSE objects[k]]
    ELSE objects
\* signature of upload_image(self, image, original_url) and the keywords the
\* handler passes in its call
upload_image_params == {"image", "original_url"}
handler_call_kwargs == {"image", "original_image_url"}
\* Python binds a keyword call only if every keyword names a parameter and
\* every parameter (none has a default) is given
binds(kwargs, params) == kwargs \subseteq params /\ params \subseteq kwargs

(* ---------------- main.py: exception translation ---------------- *)
http_error(e) ==
  IF e.cls = "ValueError"
    THEN [status |-> 400, body |-> [detail |-> e.msg]]
    ELSE [status |-> 500, body |-> [detail |-> <<"Internal server error">>]]

(* ======================= state ======================= *)
VARIABLES
  pc,          \* position of the running call
  caller,      \* entry point in use: the HTTP handler or a direct call
  retries,     \* the retries argument of download_image_with_retries
  req,         \* the ImageProcessRequest being served
  attempt,     \* loop variable of download_image_with_retries
  calls,       \* number of download_image calls the retry loop made
  sleeps,      \* number of time.sleep(delay) calls the retry loop made
  firstExc,    \* the exception of the first failed download_image call
  finalExc,    \* the exception of the download_image call the loop ended on
  payloadOK,   \* the latest 2xx payload was a JPEG, PNG or BMP image file
  image,       \* value returned by download_image_with_retries
  bboxOK,      \* outcome of validate_bounding_box
  cropped,     \* value returned by crop_image
  rembgOut,    \* what rembg.remove did in this request
  processed,   \* value returned by remove_background
  buffer,      \* the BytesIO handed to upload_image
  exc,         \* the exception in flight or last raised
  response,    \* the HTTP response of the handler
  stages,      \* history of the stages invoked for this request
  bucket,      \* S3 objects: key -> [Body, ContentType]
  usedIds,     \* uuids generated so far
  writes,      \* history of the keys put_object wrote
  uploads      \* history of the successful upload_image calls

vars == <<pc, caller, retries, req, attempt, calls, sleeps, firstExc, finalExc,
          payloadOK, image, bboxOK,
          cropped, rembgOut, processed, buffer, exc, response, stages,
          bucket, usedIds, writes, uploads>>

storeVars == <<bucket, usedIds, writes, uploads>>
dlVars == <<calls, sleeps, firstExc, finalExc>>
pipeVars == <<image, bboxOK, cropped, rembgOut, processed, buffer>>

NoRequest == [image_url |-> "", bounding_box |-> <<>>]
NoResponse == [status |-> 0, body |-> <<>>]
EmptyBucket == [k \in {} |-> None]

InitCommon ==
  /\ req = NoRequest
  /\ attempt = 0
  /\ calls = 0
  /\ sleeps = 0
  /\ firstExc = NoExc
  /\ finalExc = NoExc
  /\ payloadOK = FALSE
  /\ image = None
  /\ bboxOK = "unchecked"
  /\ cropped = None
  /\ rembgOut = "none"
  /\ processed = None
  /\ buffer = None
  /\ exc = NoExc
  /\ response = NoResponse
  /\ stages = <<>>
  /\ bucket = EmptyBucket
  /\ usedIds = {}
  /\ writes = <<>>
  /\ uploads = <<>>

\* the service waiting for a request; process_image calls
\* download_image_with_retries with the default retries
Init ==
  /\ InitCommon
  /\ caller = "handler"
  /\ pc = "idle"
  /\ retries = DefaultRetries

(* ---------------- POST /remove-background ---------------- *)
ReceiveRequest ==
  /\ caller = "handler"
  /\ pc = "idle"
  /\ \E url \in Urls, bb \in BBoxes :
       req' = [image_url |-> url, bounding_box |-> bb]
  /\ pc' = "download"
  /\ attempt' = 0
  /\ calls' = 0
  /\ sleeps' = 0
  /\ firstExc' = NoExc
  /\ finalExc' = NoExc
  /\ payloadOK' = FALSE
  /\ image' = None
  /\ bboxOK' = "unchecked"
  /\ cropped' = None
  /\ rembgOut' = "none"
  /\ processed' = None
  /\ buffer' = None
  /\ exc' = NoExc
  /\ response' = NoResponse
  /\ stages' = <<>>
  /\ UNCHANGED <<caller, retries, storeVars>>

(* ---------------- download_image_with_retries ---------------- *)
\* the bare raise of the except clause re-raises the exception being handled
\* variant: the first failure is kept and raised at the end
reraise_first(handled, first) == first
reraise(handled, first) == handled
\* variant: gives up one attempt early
should_retry_early(attempt_, retries_) == attempt_ < retries_ - 2
\* if attempt < retries - 1: sleep and try again, else raise
should_retry(attempt_, retries_) == attempt_ < retries_ - 1

AttemptStages(r) == IF r.verified THEN <<"download", "verify">> ELSE <<"download">>

\* an iteration whose download_image call returns: return it
DownloadSucceeds ==
  /\ pc = "download"
  /\ attempt < retries
  /\ \E net \in NetOutcomes, payload \in Payloads :
       LET r == download_image(net, payload) IN
         /\ r.ok
         /\ image' = r.value
         /\ payloadOK' = IsSupportedImage(payload)
         /\ stages' = stages \o AttemptStages(r)
  /\ calls' = calls + 1
  /\ pc' = IF caller = "handler" THEN "validate" ELSE "returned"
  /\ UNCHANGED <<caller, retries, req, attempt, sleeps, firstExc, finalExc, bboxOK,
                 cropped, rembgOut, processed, buffer, exc, response, storeVars>>

\* an iteration whose download_image call raises ValueError: sleep and go on
\* if attempt < retries - 1, else re-raise
DownloadFails ==
  /\ pc = "download"
  /\ attempt < retries
  /\ \E net \in NetOutcomes, payload \in Payloads :
       LET r == download_image(net, payload) IN
         /\ ~r.ok
         /\ payloadOK' = IF net = "ok" THEN IsSupportedImage(payload) ELSE payloadOK
         /\ stages' = stages \o AttemptStages(r)
         /\ calls' = calls + 1
         /\ firstExc' = IF calls = 0 THEN r.exc ELSE firstExc
         /\ IF should_retry(attempt, retries)
              THEN /\ sleeps' = sleeps + 1
                   /\ attempt' = attempt + 1
                   /\ UNCHANGED <<pc, exc, finalExc>>
              ELSE /\ finalExc' = r.exc
                   /\ exc' = reraise(r.exc, firstExc')
                   /\ UNCHANGED sleeps
                   /\ pc' = IF caller = "handler" THEN "except" ELSE "raised"
                   /\ UNCHANGED attempt
  /\ UNCHANGED <<caller, retries, req, image, bboxOK, cropped, rembgOut, processed,
                 buffer, response, storeVars>>

\* range(retries) is exhausted without a return or a raise: the function
\* falls off its end and returns None
DownloadLoopEnds ==
  /\ pc = "download"
  /\ attempt >= retries
  /\ image' = None
  /\ pc' = IF caller = "handler" THEN "validate" ELSE "returned"
  /\ UNCHANGED <<caller, retries, req, attempt, dlVars, payloadOK, bboxOK, cropped,
                 rembgOut, processed, buffer, exc, response, stages, storeVars>>

(* ---------------- process_image ---------------- *)
\* cls.validate_bounding_box(image, bounding_box); image.size of None raises
ValidateBoundingBox ==
  /\ pc = "validate"
  /\ stages' = Append(stages, "validate")
  /\ LET e == IF image = None
                THEN Exc("AttributeError", <<"'NoneType' object has no attribute 'size'">>)
                ELSE validate_bounding_box(image, req.bounding_box)
     IN IF e = NoExc
          THEN /\ bboxOK' = "accepted"
               /\ pc' = "crop"
               /\ UNCHANGED exc
          ELSE /\ bboxOK' = IF image = None THEN bboxOK ELSE "rejected"
               /\ exc' = e
               /\ pc' = "except"
  /\ UNCHANGED <<caller, retries, req, attempt, dlVars, payloadOK, image, cropped,
                 rembgOut, processed, buffer, response, storeVars>>

\* cropped_image = cls.crop_image(image, bounding_box)
CropImage ==
  /\ pc = "crop"
  /\ stages' = Append(stages, "crop")
  /\ LET r == crop_image(image, req.bounding_box)
     IN IF r.ok
          THEN /\ cropped' = r.value
               /\ pc' = "remove"
               /\ UNCHANGED exc
          ELSE /\ exc' = r.exc
               /\ pc' = "except"
               /\ UNCHANGED cropped
  /\ UNCHANGED <<caller, retries, req, attempt, dlVars, payloadOK, image, bboxOK,
                 rembgOut, processed, buffer, response, storeVars>>

\* processed_image = cls.remove_background(cropped_image)
RemoveBackground ==
  /\ pc = "remove"
  /\ stages' = Append(stages, "remove")
  /\ \E behaviour \in RembgBehaviours :
       LET r == remove_background(cropped, behaviour)
       IN /\ rembgOut' = behaviour
          /\ IF r.ok
               THEN /\ processed' = r.value
                    /\ pc' = "encode"
                    /\ UNCHANGED exc
               ELSE /\ exc' = r.exc
                    /\ pc' = "except"
                    /\ UNCHANGED processed
  /\ UNCHANGED <<caller, retries, req, attempt, dlVars, payloadOK, image, bboxOK,
                 cropped, buffer, response, storeVars>>

(* ---------------- the handler after process_image ---------------- *)
\* processed_image.save(image_buffer, format="PNG"); image_buffer.seek(0)
EncodePng ==
  /\ pc = "encode"
  /\ stages' = Append(stages, "encode")
  /\ buffer' = save_png(processed)
  /\ pc' = "construct"
  /\ UNCHANGED <<caller, retries, req, attempt, dlVars, payloadOK, image, bboxOK,
                 cropped, rembgOut, processed, exc, response, storeVars>>

\* storage_service = StorageService(): boto3.client may raise, which
\* __init__ turns into ValueError
ConstructStorage ==
  /\ pc = "construct"
  /\ stages' = Append(stages, "construct")
  /\ \E clientOK \in BOOLEAN :
       IF clientOK
         THEN /\ pc' = "upload"
              /\ UNCHANGED exc
         ELSE /\ exc' = Exc("ValueError", <<"Failed to initialize S3 client.">>)
              /\ pc' = "except"
  /\ UNCHANGED <<caller, retries, req, attempt, dlVars, payloadOK, pipeVars,
                 response, storeVars>>

\* the body of upload_image: a fresh uuid, put_object, the public URL
UploadBody(body, id, s3) ==
  /\ usedIds' = usedIds \cup {id}
  /\ bucket' = put_object(bucket, filename(id), body, s3)
  /\ writes' = IF s3 = "ok" THEN Append(writes, filename(id)) ELSE writes
  /\ uploads' = IF s3 = "ok"
                  THEN Append(uploads, [key |-> filename(id), body |-> body,
                                        url |-> upload_result(filename(id), s3).value])
                  ELSE uploads

\* processed_image_url = storage_service.upload_image(image=..., original_image_url=...)
\* and the return of the response
UploadCall ==
  /\ pc = "upload"
  /\ stages' = Append(stages, "upload")
  /\ IF ~binds(handler_call_kwargs, upload_image_params)
       THEN /\ exc' = Exc("TypeError", <<"upload_image() got an unexpected keyword argument">>)
            /\ pc' = "except"
            /\ UNCHANGED <<response, storeVars>>
       ELSE \E id \in Ids \ usedIds, s3 \in S3Outcomes :
              LET r == upload_result(filename(id), s3)
              IN /\ UploadBody(buffer, id, s3)
                 /\ IF r.ok
                      THEN /\ response' = [status |-> 200,
                                           body |-> [original_image_url |-> req.image_url,
                                                     processed_image_url |-> r.value]]
                           /\ pc' = "done"
                           /\ UNCHANGED exc
                      ELSE /\ exc' = r.exc
                           /\ pc' = "except"
                           /\ UNCHANGED response
  /\ UNCHANGED <<caller, retries, req, attempt, dlVars, payloadOK, pipeVars>>

\* process_image logs the exception and re-raises it unchanged; the handler
\* then answers: except ValueError -> 400; except Exception -> 500
HandleException ==
  /\ caller = "handler"
  /\ pc = "except"
  /\ response' = http_error(exc)
  /\ pc' = "done"
  /\ UNCHANGED <<caller, retries, req, attempt, dlVars, payloadOK, pipeVars, exc,
                 stages, storeVars>>

Next ==
  \/ ReceiveRequest
  \/ DownloadSucceeds
  \/ DownloadFails
  \/ ValidateBoundingBox
  \/ CropImage
  \/ RemoveBackground
  \/ EncodePng
  \/ ConstructStorage
  \/ UploadCall
  \/ HandleException

Spec == Init /\ [][Next]_vars

(* ---------------- download_image_with_retries called on its own ---------------- *)
InitDownload ==
  /\ InitCommon
  /\ caller = "download_image_with_retries"
  /\ pc = "download"
  /\ retries \in 0 .. MaxRetries

NextDownload ==
  \/ DownloadSucceeds
  \/ DownloadFails
  \/ DownloadLoopEnds

SpecDownload == InitDownload /\ [][NextDownload]_vars

(* ---------------- upload_image called on its own ---------------- *)
Buffers == {save_png(PILImage(w, h, "RGBA")) : w \in Dims, h \in Dims}

InitUpload ==
  /\ InitCommon
  /\ caller = "upload_image"
  /\ pc = "ready"
  /\ retries = DefaultRetries

\* storage_service.upload_image(image, original_url)
UploadImage ==
  /\ caller = "upload_image"
  /\ pc \in {"ready", "returned", "raised"}
  /\ \E body \in Buffers, url \in Urls, id \in Ids \ usedIds, s3 \in S3Outcomes :
       LET r == upload_result(filename(id), s3)
       IN /\ UploadBody(body, id, s3)
          /\ exc' = r.exc
          /\ pc' = IF r.ok THEN "returned" ELSE "raised"
  /\ UNCHANGED <<caller, retries, req, attempt, dlVars, payloadOK, pipeVars,
                 response, stages>>

NextUpload == UploadImage

SpecUpload == InitUpload /\ [][NextUpload]_vars

(* ======================= properties ======================= *)
Range(seq) == {seq[i] : i \in 1 .. Len(seq)}
Count(seq, x) == Cardinality({i \in 1 .. Len(seq) : seq[i] = x})
HasAllKeys(bb) == DOMAIN bb = Keys
\* the exception in flight came out of put_object
S3WriteFailed ==
  /\ exc # NoExc
  /\ Head(exc.msg) \in {"S3 upload failed", "Unexpected error during S3 upload"}
\* the stage the request failed in
FailedIn(stage) == exc # NoExc /\ stages # <<>> /\ stages[Len(stages)] = stage

(* ---------------- C1 ---------------- *)
\* C1: a request whose download, bounding-box validation, crop, background
\* removal, PNG encoding and storage write all succeed is answered 200 with
\* original_image_url = the request's image_url and processed_image_url = the
\* public URL of the object the uploader wrote for it.
C1_SuccessAnswers200 ==
  (pc = "done" /\ "upload" \in Range(stages) /\ ~S3WriteFailed)
    => /\ response.status = 200
       /\ uploads # <<>>
       /\ response.body = [original_image_url |-> req.image_url,
                           processed_image_url |-> uploads[Len(uploads)].url]

(* ---------------- C2 ---------------- *)
\* C2: for a box with four integer coordinates, validate_bounding_box accepts
\* iff 0 <= x_min < x_max <= W and 0 <= y_min < y_max <= H for the downloaded
\* image's size, and a request whose box is rejected is answered 400.
C2_BoundingBoxValidation ==
  (bboxOK # "unchecked" /\ HasAllKeys(req.bounding_box))
    => LET b == req.bounding_box
       IN /\ (bboxOK = "accepted") <=>
               (/\ 0 <= b["x_min"] /\ b["x_min"] < b["x_max"] /\ b["x_max"] <= image.W
                /\ 0 <= b["y_min"] /\ b["y_min"] < b["y_max"] /\ b["y_max"] <= image.H)
          /\ (bboxOK = "rejected" /\ pc = "done") => response.status = 400

\* a box that exceeds the right edge only was rejected and answered 400
C2_Witness ==
  /\ pc = "done"
  /\ HasAllKeys(req.bounding_box)
  /\ bboxOK = "rejected"
  /\ req.bounding_box["x_min"] = 0
  /\ req.bounding_box["x_max"] = image.W + 1
  /\ req.bounding_box["y_min"] = 0
  /\ req.bounding_box["y_max"] = image.H
  /\ image.W # image.H
  /\ response.status = 400

(* ---------------- C3 ---------------- *)
\* C3 (as stated): when every attempt fails, the number of repeated download
\* attempts made after the first one equals retries when the failure
\* propagates, and no attempt is made afterwards.
C3_RepeatsEqualRetries ==
  pc = "raised" => (calls - 1 = retries /\ ~ENABLED NextDownload)

\* C3 (amended): when every attempt fails, the failure propagates after
\* exactly retries download attempts in total, that is retries - 1 repeats
\* after the first one, and no attempt is made afterwards.
C3_AttemptsEqualRetries ==
  pc = "raised" => (calls = retries /\ calls - 1 = retries - 1 /\ ~ENABLED NextDownload)

\* the default count: three failed attempts, then the failure propagated
C3_Witness ==
  pc = "raised" /\ retries = DefaultRetries /\ calls = 3 /\ exc # NoExc

(* ---------------- C4 ---------------- *)
\* C4: a request failing in background removal or in the storage write is
\* answered 500, and one failing for a bad URL, a bad image format or a bad
\* bounding box is answered 400.
C4_ErrorClasses ==
  pc = "done" =>
    /\ (FailedIn("remove") \/ S3WriteFailed) => response.status = 500
    /\ (FailedIn("download") \/ FailedIn("verify") \/ FailedIn("validate"))
         => response.status = 400

(* ---------------- C5 ---------------- *)
StageRank(st) ==
  CASE st = "download" -> 1
    [] st = "verify" -> 2
    [] st = "validate" -> 3
    [] st = "crop" -> 4
    [] st = "remove" -> 5
    [] st = "encode" -> 6
    [] st = "construct" -> 7
    [] st = "upload" -> 8
\* every stage follows the success of the one before it; only a new download
\* attempt may follow a failed download or a failed check
StagesInOrder ==
  /\ stages # <<>> => stages[1] = "download"
  /\ \A i \in 1 .. (Len(stages) - 1) :
       \/ StageRank(stages[i + 1]) = StageRank(stages[i]) + 1
       \/ stages[i + 1] = "download" /\ stages[i] \in {"download", "verify"}
  /\ "validate" \in Range(stages) => image # None
  /\ "crop" \in Range(stages) => bboxOK = "accepted"
  /\ "remove" \in Range(stages) => cropped # None
  /\ "encode" \in Range(stages) => processed # None
  /\ "upload" \in Range(stages) => (processed # None /\ buffer # None)
\* a payload that is not a JPEG/PNG/BMP image never reaches crop, and the
\* bucket is written at most once and only after background removal
RejectedBeforeCrop == "crop" \in Range(stages) => payloadOK
WriteAtMostOnce == Len(writes) <= 1 /\ (writes # <<>> => processed # None)
AtMostOnce(S) == \A st \in S : Count(stages, st) <= 1

\* C5: the stages run in the order download -> format/integrity
\* check -> bounding-box validation -> crop -> background removal -> upload,
\* each after the success of the previous one; a non-image or unsupported
\* payload is rejected without crop; the storage write happens at most once
\* and after background removal; every stage other than download is invoked
\* at most once per request.
C5_EveryStageButDownloadOnce ==
  /\ StagesInOrder
  /\ RejectedBeforeCrop
  /\ WriteAtMostOnce
  /\ AtMostOnce({"verify", "validate", "crop", "remove", "encode", "construct", "upload"})

(* ---------------- C6 ---------------- *)
\* C6: whatever the input colour mode, an image returned by remove_background
\* is in RGBA mode, it is that image which is encoded as PNG and passed to the
\* uploader, and a model output that is not a 4-channel array never yields a
\* returned image.
C6_OutputIsRgbaPng ==
  /\ processed # None => (processed.mode = "RGBA" /\ rembgOut = "rgba")
  /\ rembgOut \in {"raise", "mask2d", "rgb"} => (processed = None /\ buffer = None)
  /\ buffer # None =>
       /\ processed # None
       /\ buffer.format = "PNG" /\ buffer.mode = "RGBA" /\ buffer.pos = 0
       /\ buffer.W = processed.W /\ buffer.H = processed.H
  /\ "upload" \in Range(stages) => buffer # None

\* a greyscale input went through background removal and its RGBA PNG was
\* passed to the uploader
C6_Witness ==
  /\ "upload" \in Range(stages)
  /\ image.mode = "L"
  /\ cropped.mode = "L"
  /\ processed.mode = "RGBA"
  /\ buffer.format = "PNG"

(* ---------------- C7 ---------------- *)
\* C7: any two successful upload_image calls, also for the same bytes, write
\* two different keys <random-id>_processed.png and return two different URLs
\* https://<bucket>.s3.<region>.amazonaws.com/<key> for the key written; no
\* upload overwrites an object of an earlier upload.
C7_DistinctKeysAndUrls ==
  /\ Len(writes) = Len(uploads)
  /\ \A i \in 1 .. Len(uploads) :
       /\ writes[i] = uploads[i].key
       /\ \E id \in Ids : uploads[i].key = <<id, "_processed.png">>
       /\ uploads[i].url = <<"https://", "background-removal-bucket", ".s3.", "us-east-1",
                             ".amazonaws.com/", uploads[i].key>>
       /\ uploads[i].key \in DOMAIN bucket
       /\ bucket[uploads[i].key] = [Body |-> uploads[i].body, ContentType |-> "image/png"]
       /\ \A j \in 1 .. Len(uploads) :
            i # j => (uploads[i].key # uploads[j].key /\ uploads[i].url # uploads[j].url)

\* the same bytes uploaded twice
C7_Witness ==
  /\ Len(uploads) >= 2
  /\ uploads[1].body = uploads[2].body
  /\ uploads[1].url # uploads[2].url

(* ---------------- C8 ---------------- *)
\* C8: when all attempts fail the error raised is the error of the last
\* attempt; a successful attempt ends the loop at once and returns its image;
\* the delay is slept only between two consecutive attempts, never after the
\* last failed attempt nor after a success.
C8_LastErrorAndSleeps ==
  /\ pc = "download" => sleeps = calls
  /\ pc = "raised" =>
       /\ exc = finalExc /\ exc # NoExc
       /\ sleeps = calls - 1
       /\ ~ENABLED NextDownload
  /\ (pc = "returned" /\ calls > 0) =>
       /\ image # None /\ exc = NoExc
       /\ sleeps = calls - 1
       /\ ~ENABLED NextDownload

\* three failed attempts with different errors: the last one was raised
C8_Witness ==
  /\ pc = "raised"
  /\ calls = 3
  /\ sleeps = 2
  /\ firstExc # finalExc
  /\ exc = finalExc

(* ---------------- C9 ---------------- *)
\* C9: for every retry count, 0 included, download_image_with_retries returns
\* a downloaded and verified image or raises: it never returns without one.
C9_NeverReturnsNone ==
  pc = "returned" => (image # None /\ payloadOK)

(* ---------------- C10 ---------------- *)
\* C10: every box validate_bounding_box accepts is cropped without error; a
\* box lacking one of the four keys is rejected by validation with 400 and
\* never fails in crop with 500.
C10_AcceptedBoxCrops ==
  /\ (bboxOK = "accepted" /\ "crop" \in Range(stages)) => cropped # None
  /\ (pc = "done" /\ "validate" \in Range(stages) /\ ~HasAllKeys(req.bounding_box))
       => (bboxOK = "rejected" /\ response.status = 400)

====
